---- MODULE Spec2Model ----
(***************************************************************************)
(* Model of fix_csv_data.py: a single pass over the *.csv files of one     *)
(* directory that replaces "<nil>" by "0" and reformats scientific         *)
(* notation in five numeric columns, rewriting a file in place when the    *)
(* changes_made flag is set.                                               *)
(*                                                                         *)
(* Strings whose characters matter (cell values, file names) are sequences *)
(* of one-character strings.  Column names are only compared for equality  *)
(* and are plain strings.  A CSV file is modelled after csv parsing of its *)
(* text: a header record and a sequence of data records, each a sequence   *)
(* of cells (quoting and line terminators are below the model).            *)
(***************************************************************************)
EXTENDS Integers, Sequences, FiniteSets, TLC

\* ---------------------------------------------------------------- bounds
MaxFiles == 2   \* most files in the directory (catalogue initial states)
MaxRows  == 2   \* most data records of the generated file
MaxRuns  == 2   \* how many times the script is run over the directory

\* ------------------------------------------------------------ characters
Digit == {"0", "1", "2", "3", "4", "5", "6", "7", "8", "9"}

DigitVal(c) ==
    CASE c = "0" -> 0 [] c = "1" -> 1 [] c = "2" -> 2 [] c = "3" -> 3
      [] c = "4" -> 4 [] c = "5" -> 5 [] c = "6" -> 6 [] c = "7" -> 7
      [] c = "8" -> 8 [] c = "9" -> 9

DigitChar(n) ==
    CASE n = 0 -> "0" [] n = 1 -> "1" [] n = 2 -> "2" [] n = 3 -> "3"
      [] n = 4 -> "4" [] n = 5 -> "5" [] n = 6 -> "6" [] n = 7 -> "7"
      [] n = 8 -> "8" [] n = 9 -> "9"

\* code points of the characters that occur in file names
Ord(c) ==
    CASE c = "." -> 46 [] c = "a" -> 97 [] c = "b" -> 98 [] c = "c" -> 99
      [] c = "s" -> 115 [] c = "t" -> 116 [] c = "v" -> 118 [] c = "x" -> 120

\* str.lower() on the characters of the model's alphabet
LowerChar(c) ==
    CASE c = "E" -> "e" [] c = "N" -> "n" [] c = "I" -> "i" [] c = "L" -> "l"
      [] OTHER -> c

lower(s) == [i \in 1..Len(s) |-> LowerChar(s[i])]

\* the Python test  sub in s
Contains(s, sub) ==
    \E i \in 1..(Len(s) - Len(sub) + 1) : SubSeq(s, i, i + Len(sub) - 1) = sub

\* ------------------------------------------------------------ cell values
None     == <<"None">>                    \* DictReader's restval
NIL      == <<"<", "n", "i", "l", ">">>   \* '<nil>'
ZERO     == <<"0">>                       \* '0'
EPLUS    == <<"e", "+">>                  \* 'e+'

\* truthiness of a cell value: None and '' are falsy
Truthy(v) == v # None /\ v # <<>>

\* str(value): None prints as 'None'
str(v) == IF v = None THEN <<"N", "o", "n", "e">> ELSE v

\* ---------------------------------------------------------------- float()
FirstPos(s, chars) ==
    LET P == {i \in 1..Len(s) : s[i] \in chars}
    IN  IF P = {} THEN 0 ELSE CHOOSE i \in P : \A j \in P : i <= j

AllDigits(s) == \A i \in 1..Len(s) : s[i] \in Digit

RECURSIVE ToNat(_)
ToNat(ds) ==
    IF ds = <<>> THEN 0
    ELSE 10 * ToNat(SubSeq(ds, 1, Len(ds) - 1)) + DigitVal(ds[Len(ds)])

RECURSIVE ToDigits(_)
ToDigits(n) ==
    IF n < 10 THEN <<DigitChar(n)>>
    ELSE Append(ToDigits(n \div 10), DigitChar(n % 10))

RECURSIVE Zeros(_)
Zeros(n) == IF n <= 0 THEN <<>> ELSE <<"0">> \o Zeros(n - 1)

\* float(value) on a decimal literal  [sign] digits [. digits] [e [sign] digits].
\* ok = FALSE stands for ValueError.  The literals inf, nan and infinity,
\* surrounding whitespace and digit-group underscores are not in the
\* alphabet of the model's values.
float(value) ==
    LET s     == str(value)
        neg   == Len(s) > 0 /\ s[1] = "-"
        body  == IF Len(s) > 0 /\ s[1] \in {"+", "-"} THEN Tail(s) ELSE s
        ep    == FirstPos(body, {"e", "E"})
        mant  == IF ep = 0 THEN body ELSE SubSeq(body, 1, ep - 1)
        expo  == IF ep = 0 THEN <<>> ELSE SubSeq(body, ep + 1, Len(body))
        eneg  == Len(expo) > 0 /\ expo[1] = "-"
        edig  == IF Len(expo) > 0 /\ expo[1] \in {"+", "-"}
                 THEN Tail(expo) ELSE expo
        dp    == FirstPos(mant, {"."})
        ip    == IF dp = 0 THEN mant ELSE SubSeq(mant, 1, dp - 1)
        fp    == IF dp = 0 THEN <<>> ELSE SubSeq(mant, dp + 1, Len(mant))
        ok    == /\ value # None
                 /\ AllDigits(ip) /\ AllDigits(fp) /\ Len(ip) + Len(fp) > 0
                 /\ (ep # 0 => (Len(edig) > 0 /\ AllDigits(edig)))
    IN  [ok |-> ok, neg |-> neg, ip |-> ip, fp |-> fp,
         exp |-> IF ok /\ ep # 0
                 THEN (IF eneg THEN 0 - ToNat(edig) ELSE ToNat(edig)) ELSE 0]

\* f"{num:.2f}": the decimal point is moved exp places, the value is rounded
\* to hundredths.  An exact decimal tie is rounded to even here; in Python it
\* follows the binary double.  No value of the model has a third decimal.
format2f(num) ==
    LET D     == num.ip \o num.fp
        q     == Len(num.ip) + num.exp + 2
        kept  == IF q >= Len(D) THEN D \o Zeros(q - Len(D))
                 ELSE IF q <= 0 THEN <<>> ELSE SubSeq(D, 1, q)
        drop  == IF q >= Len(D) THEN <<>>
                 ELSE IF q < 0 THEN Zeros(0 - q) \o D
                 ELSE SubSeq(D, q + 1, Len(D))
        k     == ToNat(kept)
        rest  == IF drop = <<>> THEN <<>> ELSE Tail(drop)
        up    == /\ drop # <<>>
                 /\ \/ DigitVal(drop[1]) > 5
                    \/ /\ DigitVal(drop[1]) = 5
                       /\ (\E i \in 1..Len(rest) : rest[i] # "0") \/ k % 2 = 1
        k2    == IF up THEN k + 1 ELSE k
    IN  (IF num.neg THEN <<"-">> ELSE <<>>)
        \o ToDigits(k2 \div 100)
        \o <<".", DigitChar((k2 % 100) \div 10), DigitChar(k2 % 10)>>

convert_scientific_to_decimal(value) ==
    IF Contains(lower(str(value)), EPLUS)
    THEN IF float(value).ok THEN format2f(float(value)) ELSE value
    ELSE value

\* ------------------------------------------------------------- csv module
Range(s) == {s[k] : k \in 1..Len(s)}

Index(header, c) == CHOOSE k \in 1..Len(header) : header[k] = c

\* one record of csv.DictReader: the cells keyed by the field names, missing
\* cells None (restval), surplus cells under the key None (restkey), kept
\* here in the field  rest
ParseRow(header, raw) ==
    [d    |-> [c \in Range(header) |->
                  IF Index(header, c) <= Len(raw)
                  THEN raw[Index(header, c)] ELSE None],
     rest |-> IF Len(raw) > Len(header)
              THEN SubSeq(raw, Len(header) + 1, Len(raw)) ELSE <<>>]

NonBlank(raw) == raw # <<>>

\* csv.DictReader(f): fieldnames and list(reader); blank records are skipped
DictReader(content) ==
    LET recs == SelectSeq(content.rows, NonBlank)
    IN  [fieldnames |-> content.header,
         rows       |-> [k \in 1..Len(recs) |-> ParseRow(content.header, recs[k])]]

\* DictWriter._dict_to_list: a key outside fieldnames raises ValueError
HasExtras(row) == row.rest # <<>>

\* the record the writer emits; None is written as the empty string
dict_to_list(fieldnames, row) ==
    [k \in 1..Len(fieldnames) |->
        IF row.d[fieldnames[k]] = None THEN <<>> ELSE row.d[fieldnames[k]]]

\* ---------------------------------------------------------- normalization
numeric_columns ==
    {"total_volume_usd", "daily_users", "numberOfNewUsers", "daily_trades",
     "total_fees_usd"}

\* the elif condition of fix_csv_file
SciLike(value) == Truthy(value) /\ Contains(lower(value), EPLUS)

\* body of the inner loop for one column: the new value of row[col]
FixValue(value) ==
    IF value = NIL THEN ZERO
    ELSE IF SciLike(value) THEN convert_scientific_to_decimal(value)
    ELSE value

\* whether the inner loop sets changes_made for this value
SetsFlag(value) == value = NIL \/ SciLike(value)

\* the inner loop run over every column of the row
FixRowAll(row) ==
    [row EXCEPT !.d = [c \in DOMAIN row.d |-> FixValue(row.d[c])]]

\* the inner loop over numeric_columns for one row
FixRow(row) ==
    [row EXCEPT !.d = [c \in DOMAIN row.d |->
                          IF c \in numeric_columns
                          THEN FixValue(row.d[c]) ELSE row.d[c]]]

RowSetsFlag(row) ==
    \E c \in numeric_columns \cap DOMAIN row.d : SetsFlag(row.d[c])

\* ------------------------------------------------------------- file names
A_CSV  == <<"a", ".", "c", "s", "v">>
AB_CSV == <<"a", "b", ".", "c", "s", "v">>
B_CSV  == <<"b", ".", "c", "s", "v">>
A_TXT  == <<"a", ".", "t", "x", "t">>

AllNames == {A_CSV, AB_CSV, B_CSV, A_TXT}

\* glob pattern "*.csv": the name ends in .csv and is not a hidden file
Match(name) ==
    /\ Len(name) >= 4
    /\ SubSeq(name, Len(name) - 3, Len(name)) = <<".", "c", "s", "v">>
    /\ name[1] # "."

\* Python's order on str: by code point, a proper prefix first.  All paths
\* share the directory prefix, so file names decide.
LexLess(p, q) ==
    \E k \in 1..Len(q) :
        /\ k - 1 <= Len(p)
        /\ SubSeq(p, 1, k - 1) = SubSeq(q, 1, k - 1)
        /\ \/ Len(p) = k - 1
           \/ Len(p) >= k /\ Ord(p[k]) < Ord(q[k])

unsorted(files) == files

sorted(files) == SortSeq(files, LexLess)

Perms(S) ==
    {s \in [1..Cardinality(S) -> S] :
        \A a, b \in 1..Cardinality(S) : a # b => s[a] # s[b]}

\* ------------------------------------------------- initial file contents
V_42    == <<"4", "2">>
V_EMPTY == <<>>
V_SCI   == <<"1", ".", "5", "e", "+", "0", "7">>
V_SCIU  == <<"3", ".", "2", "E", "+", "0", "5">>
V_NEG   == <<"-", "2", ".", "5", "e", "+", "0">>
V_BAD   == <<"a", "b", "c", "e", "+">>
V_NILU  == <<"<", "N", "I", "L", ">">>
V_OK    == <<"o", "k">>
V_D1    == <<"d", "1">>
V_D2    == <<"d", "2">>
V_D3    == <<"d", "3">>

Values == {NIL, V_NILU, V_42, V_EMPTY, V_SCI, V_SCIU, V_NEG, V_BAD}

HA == <<"date", "total_volume_usd", "daily_users", "note">>
HB == <<"date", "note">>
HC == <<"daily_users", "note">>

File(h, rs) == [header |-> h, rows |-> rs]

EmptyFile == File(<<>>, <<>>)

\* a row with '<nil>' and an e+ value, followed by a plain row
F_FIX   == File(HA, << <<V_D1, NIL, V_SCIU, V_OK>>, <<V_D2, V_42, V_EMPTY, V_SCI>> >>)
\* nothing to normalize: target cells plain, a non-target cell in e+ form
F_PLAIN == File(HA, << <<V_D1, V_42, V_EMPTY, V_SCI>>, <<V_D2, V_NILU, V_42, NIL>> >>)
\* the only e+ value of a target column does not parse
F_BAD   == File(HA, << <<V_D1, V_BAD, V_42, NIL>> >>)
\* a record with more cells than the header between two regular records
F_LONG  == File(HA, << <<V_D1, NIL, V_42, V_OK>>,
                       <<V_D2, V_SCI, V_42, V_OK, V_OK>>,
                       <<V_D3, V_42, V_42, V_OK>> >>)
\* a short record and a blank line, one value to reformat
F_SHORT == File(HA, << <<V_D1, V_SCI>>, <<>>, <<V_D2>> >>)
\* no target column at all
F_NOTGT == File(HB, << <<NIL, V_SCI>> >>)

Catalogue == {F_FIX, F_PLAIN, F_BAD, F_LONG, F_SHORT, F_NOTGT, EmptyFile}

\* a file of the directory: its content and whether it can be opened for
\* reading ("r") and for writing ("w")
FileKinds ==
    {[content |-> c, mode |-> "rw"] : c \in Catalogue}
    \cup {[content |-> F_FIX, mode |-> "w"], [content |-> F_FIX, mode |-> "r"],
          [content |-> F_PLAIN, mode |-> "r"]}

TxtKind == [content |-> F_FIX, mode |-> "rw"]

\* records of the generated file (header HC): two cells, one cell, and
\* three cells, one more than the header has
GenRecords ==
    {<<v, w>> : v \in Values, w \in {V_OK, NIL, V_SCI}}
    \cup {<<v>> : v \in {NIL, V_42, V_SCI, V_BAD}}
    \cup {<<v, V_OK, V_OK>> : v \in {NIL, V_42, V_SCI, V_BAD}}

GenFiles ==
    UNION {{File(HC, rs) : rs \in [1..n -> GenRecords]} : n \in 0..MaxRows}

Readable(m) == m \in {"rw", "r"}
Writable(m) == m \in {"rw", "w"}

\* ------------------------------------------------------------------ state
VARIABLES
    dirOk,          \* the directory exists and can be listed
    disk,           \* file name -> content on disk
    mode,           \* file name -> "rw" | "r" | "w"
    run,            \* number of the current run of the script
    before,         \* disk as it was when the current run started
    passed,         \* files a previous run finished without an error
    pc,             \* position of the script
    csv_files,      \* main: result of glob.glob
    order,          \* main: sorted(csv_files)
    idx,            \* main: position of the for loop in order
    fixed_count,    \* main
    cur,            \* fix_csv_file: filepath
    headers,        \* fix_csv_file
    rows,           \* fix_csv_file
    changes_made,   \* fix_csv_file
    wi,             \* writerows: next row to write
    out             \* lines printed by the current run

vars == <<dirOk, disk, mode, run, before, passed, pc, csv_files, order, idx,
          fixed_count, cur, headers, rows, changes_made, wi, out>>

locals == <<cur, headers, rows, changes_made, wi>>

Ev(e, f, a, b) == [ev |-> e, file |-> f, a |-> a, b |-> b]

InitLocals ==
    /\ cur = <<>> /\ headers = <<>> /\ rows = <<>>
    /\ changes_made = FALSE /\ wi = 1

InitMain ==
    /\ run = 1 /\ pc = "start" /\ csv_files = <<>> /\ order = <<>>
    /\ idx = 1 /\ fixed_count = 0 /\ out = <<>> /\ passed = {}
    /\ before = disk
    /\ InitLocals

\* a directory of up to MaxFiles files taken from the catalogue, or a
\* directory that is missing or cannot be listed
InitDir ==
    /\ dirOk \in BOOLEAN
    /\ \E names \in {S \in SUBSET AllNames : Cardinality(S) <= MaxFiles} :
         \E fk \in [names -> FileKinds \cup {TxtKind}] :
            /\ \A n \in names : ~Match(n) => fk[n] = TxtKind
            /\ ~dirOk => names = {}
            /\ disk = [n \in names |-> fk[n].content]
            /\ mode = [n \in names |-> fk[n].mode]
    /\ InitMain

\* a directory holding one file of up to MaxRows generated records
InitGen ==
    /\ dirOk = TRUE
    /\ \E c \in GenFiles, m \in {"rw", "r", "w"} :
            /\ disk = [n \in {A_CSV} |-> c]
            /\ mode = [n \in {A_CSV} |-> m]
    /\ InitMain

Init == InitDir \/ InitGen

\* ---------------------------------------------------------------- actions
ResetLocals ==
    /\ cur' = <<>> /\ headers' = <<>> /\ rows' = <<>>
    /\ changes_made' = FALSE /\ wi' = 1

\* fix_csv_file returned or raised: the for loop of main moves on
EndFile(event, inc) ==
    /\ out' = Append(out, event)
    /\ fixed_count' = fixed_count + inc
    /\ idx' = idx + 1
    /\ pc' = "loop"
    /\ ResetLocals

\* main: glob.glob returns the matching files in any order, and the empty
\* list for a directory that is missing or cannot be listed; then the
\* "Found" line, fixed_count = 0 and sorted(csv_files)
Glob ==
    /\ pc = "start"
    /\ LET matching == IF dirOk THEN {n \in DOMAIN disk : Match(n)} ELSE {}
       IN  \E listing \in Perms(matching) :
              /\ csv_files' = listing
              /\ order' = sorted(listing)
              /\ out' = <<Ev("found", <<>>, Len(listing), 0)>>
    /\ fixed_count' = 0
    /\ idx' = 1
    /\ pc' = "loop"
    /\ UNCHANGED <<dirOk, disk, mode, run, before, passed, locals>>

\* main: next iteration of the for loop; fix_csv_file prints "Processing"
StartFile ==
    /\ pc = "loop"
    /\ idx <= Len(order)
    /\ cur' = order[idx]
    /\ out' = Append(out, Ev("processing", order[idx], 0, 0))
    /\ pc' = "read"
    /\ UNCHANGED <<dirOk, disk, mode, run, before, passed, csv_files, order,
                   idx, fixed_count, headers, rows, changes_made, wi>>

\* fix_csv_file: open(filepath, 'r'), DictReader, fieldnames, list(reader)
ReadOk ==
    /\ pc = "read"
    /\ Readable(mode[cur])
    /\ headers' = DictReader(disk[cur]).fieldnames
    /\ rows' = DictReader(disk[cur]).rows
    /\ changes_made' = FALSE
    /\ pc' = "normalize"
    /\ UNCHANGED <<dirOk, disk, mode, run, before, passed, csv_files, order,
                   idx, fixed_count, cur, wi, out>>

\* the exception of open(filepath, 'r') leaves the for loop of main
ReadErrorAbort ==
    /\ pc = "read"
    /\ ~Readable(mode[cur])
    /\ out' = Append(out, Ev("error", cur, 0, 0))
    /\ pc' = "done"
    /\ ResetLocals
    /\ UNCHANGED <<dirOk, disk, mode, run, before, passed, csv_files, order,
                   idx, fixed_count>>

\* fix_csv_file: open(filepath, 'r') raises; main's except prints the error
ReadError ==
    /\ pc = "read"
    /\ ~Readable(mode[cur])
    /\ EndFile(Ev("error", cur, 0, 0), 0)
    /\ UNCHANGED <<dirOk, disk, mode, run, before, passed, csv_files, order>>

\* fix_csv_file: the loop over rows and numeric_columns
Normalize ==
    /\ pc = "normalize"
    /\ rows' = [k \in 1..Len(rows) |-> FixRow(rows[k])]
    /\ changes_made' = \E k \in 1..Len(rows) : RowSetsFlag(rows[k])
    /\ pc' = "decide"
    /\ UNCHANGED <<dirOk, disk, mode, run, before, passed, csv_files, order,
                   idx, fixed_count, cur, headers, wi, out>>

\* fix_csv_file: else branch, "No changes needed", return False
NoChanges ==
    /\ pc = "decide"
    /\ ~changes_made
    /\ EndFile(Ev("nochange", cur, 0, 0), 0)
    /\ UNCHANGED <<dirOk, disk, mode, run, before, passed, csv_files, order>>

\* fix_csv_file: open(filepath, 'w') truncates the file
OpenWriteOk ==
    /\ pc = "decide"
    /\ changes_made
    /\ Writable(mode[cur])
    /\ disk' = [disk EXCEPT ![cur] = EmptyFile]
    /\ pc' = "writeheader"
    /\ UNCHANGED <<dirOk, mode, run, before, passed, csv_files, order, idx,
                   fixed_count, cur, headers, rows, changes_made, wi, out>>

\* fix_csv_file: open(filepath, 'w') raises; main's except prints the error
OpenWriteError ==
    /\ pc = "decide"
    /\ changes_made
    /\ ~Writable(mode[cur])
    /\ EndFile(Ev("error", cur, 0, 0), 0)
    /\ UNCHANGED <<dirOk, disk, mode, run, before, passed, csv_files, order>>

\* fix_csv_file: writer.writeheader()
WriteHeader ==
    /\ pc = "writeheader"
    /\ disk' = [disk EXCEPT ![cur].header = headers]
    /\ wi' = 1
    /\ pc' = "writerows"
    /\ UNCHANGED <<dirOk, mode, run, before, passed, csv_files, order, idx,
                   fixed_count, cur, headers, rows, changes_made, out>>

\* writer.writerows(rows): one more row is written
WriteRowOk ==
    /\ pc = "writerows"
    /\ wi <= Len(rows)
    /\ ~HasExtras(rows[wi])
    /\ disk' = [disk EXCEPT ![cur].rows = Append(@, dict_to_list(headers, rows[wi]))]
    /\ wi' = wi + 1
    /\ UNCHANGED <<dirOk, mode, run, before, passed, pc, csv_files, order, idx,
                   fixed_count, cur, headers, rows, changes_made, out>>

\* writer.writerows(rows): _dict_to_list raises ValueError for the next row;
\* the with statement closes the file with what was written so far and
\* main's except prints the error
WriteRowError ==
    /\ pc = "writerows"
    /\ wi <= Len(rows)
    /\ HasExtras(rows[wi])
    /\ EndFile(Ev("error", cur, 0, 0), 0)
    /\ UNCHANGED <<dirOk, disk, mode, run, before, passed, csv_files, order>>

\* fix_csv_file: all rows written, "Fixed and saved", return True;
\* main: fixed_count += 1
CloseFixed ==
    /\ pc = "writerows"
    /\ wi > Len(rows)
    /\ EndFile(Ev("fixed", cur, 0, 0), 1)
    /\ UNCHANGED <<dirOk, disk, mode, run, before, passed, csv_files, order>>

\* main: the for loop is exhausted, the "Summary" line
Summary ==
    /\ pc = "loop"
    /\ idx > Len(order)
    /\ out' = Append(out, Ev("summary", <<>>, fixed_count, Len(csv_files)))
    /\ pc' = "done"
    /\ UNCHANGED <<dirOk, disk, mode, run, before, passed, csv_files, order,
                   idx, fixed_count, locals>>

Finished(f) ==
    \E k \in 1..Len(out) : out[k].file = f /\ out[k].ev \in {"fixed", "nochange"}

\* the script is started again on the same directory
Rerun ==
    /\ pc = "done"
    /\ run < MaxRuns
    /\ run' = run + 1
    /\ before' = disk
    /\ passed' = {f \in DOMAIN disk : Finished(f)}
    /\ pc' = "start"
    /\ csv_files' = <<>> /\ order' = <<>> /\ idx' = 1 /\ fixed_count' = 0
    /\ out' = <<>>
    /\ UNCHANGED <<dirOk, disk, mode, locals>>

Next ==
    \/ Glob \/ StartFile \/ ReadOk \/ ReadError \/ Normalize \/ NoChanges
    \/ OpenWriteOk \/ OpenWriteError \/ WriteHeader \/ WriteRowOk
    \/ WriteRowError \/ CloseFixed \/ Summary \/ Rerun

Spec == Init /\ [][Next]_vars

\* ------------------------------------------------------------ properties
\* the five target fields the properties speak of
TargetFieldSet ==
    {"total_volume_usd", "daily_users", "numberOfNewUsers", "daily_trades",
     "total_fees_usd"}

InFile == pc \in {"read", "normalize", "decide", "writeheader", "writerows"}
Normalized == pc \in {"decide", "writeheader", "writerows"}
Writing == pc \in {"writeheader", "writerows"}

IsProcessing(e) == e.ev = "processing"
Procs == SelectSeq(out, IsProcessing)
Errors == {k \in 1..Len(out) : out[k].ev = "error"}

\* what a complete rewrite of a file leaves on disk
FullNew(content) ==
    LET r == DictReader(content)
    IN  File(r.fieldnames,
             [k \in 1..Len(r.rows) |-> dict_to_list(r.fieldnames, FixRow(r.rows[k]))])

\* Claim C1: after the run every file holds either its prior content or the
\* complete new content (header and all normalized rows); never a part of it.
C1_AllOrNothing ==
    pc = "done" =>
        \A f \in DOMAIN disk : disk[f] = before[f] \/ disk[f] = FullNew(before[f])

\* Claim C2: an error in one file is reported and does not end the run: the
\* driver is back in its loop after it, the next line is the next file's or
\* the summary, and a finished run has attempted every discovered file and
\* ends with the summary line.
C2_ErrorsContained ==
    /\ \A k \in Errors :
          IF k = Len(out) THEN pc = "loop"
          ELSE out[k + 1].ev \in {"processing", "summary"}
    /\ pc = "done" =>
          /\ out[Len(out)].ev = "summary"
          /\ \A n \in 1..Len(csv_files) :
                \E k \in 1..Len(out) : out[k] = Ev("processing", csv_files[n], 0, 0)

C2_Witness ==
    /\ pc = "done"
    /\ out[Len(out)].ev = "summary"
    /\ \E k \in Errors : \E j \in (k + 1)..Len(out) : out[j].ev = "processing"

\* every e+ looking value of a target field fails to parse, and no target
\* field holds '<nil>'
OnlyUnparseable(content) ==
    LET r == DictReader(content).rows
    IN  \A k \in 1..Len(r) : \A c \in TargetFieldSet \cap DOMAIN r[k].d :
           /\ r[k].d[c] # NIL
           /\ SciLike(r[k].d[c]) => ~float(r[k].d[c]).ok

\* Claim C3: a file whose only e+ looking target values do not parse, and
\* that has no '<nil>' in a target field, gets changed = false, is not
\* rewritten and is not counted among the fixed files.
C3_UnparseableNotCounted ==
    /\ (Normalized /\ OnlyUnparseable(before[cur])) => ~changes_made
    /\ Writing => ~OnlyUnparseable(before[cur])
    /\ \A k \in 1..Len(out) :
          out[k].ev = "fixed" => ~OnlyUnparseable(before[out[k].file])

\* Claim C4: the changed flag is the OR of "some value of the row changed"
\* over the rows, and a file is opened for writing only if some row differs
\* from what was read.
C4_WriteOnlyIfChanged ==
    Normalized =>
        LET orig    == DictReader(before[cur]).rows
            differs == \E k \in 1..Len(rows) : rows[k] # orig[k]
        IN  /\ changes_made <=> differs
            /\ Writing => differs

\* Claim C5: a pass over a file that an earlier pass finished reports no
\* change, does not rewrite it and leaves every value as it was read.
C5_Idempotent ==
    /\ (Normalized /\ cur \in passed) =>
          /\ ~changes_made
          /\ rows = DictReader(before[cur]).rows
    /\ Writing => cur \notin passed

\* Claim C6: when the directory is missing or unreadable the run does not
\* complete as a normal run reporting zero files: no "Found" line and no
\* summary are printed.
C6_MissingDirFatal ==
    ~dirOk => out = <<>>

\* Claim C7: the summary's discovered count is the number of enumerated
\* files, its changed count is the number of files whose content the run
\* changed, and changed + errored <= discovered.
C7_Counts ==
    pc = "done" =>
        LET s == out[Len(out)]
        IN  /\ s.b = Len(csv_files)
            /\ s.a = Cardinality({f \in Range(csv_files) : disk[f] # before[f]})
            /\ s.a + Cardinality(Errors) <= s.b

\* Claim C8: normalization leaves every column outside the target fields as
\* it was read, adds no column to a row, keeps the header, and a rewritten
\* file has the header it had before.
C8_Frame ==
    /\ Normalized =>
          LET orig == DictReader(before[cur])
          IN  /\ headers = orig.fieldnames
              /\ Len(rows) = Len(orig.rows)
              /\ \A k \in 1..Len(rows) :
                    /\ DOMAIN rows[k].d = DOMAIN orig.rows[k].d
                    /\ rows[k].rest = orig.rows[k].rest
                    /\ \A c \in DOMAIN rows[k].d \ TargetFieldSet :
                          rows[k].d[c] = orig.rows[k].d[c]
    /\ \A k \in 1..Len(out) :
          out[k].ev = "fixed" => disk[out[k].file].header = before[out[k].file].header

C8_Witness ==
    /\ pc = "decide"
    /\ changes_made
    /\ \E k \in 1..Len(rows) :
          /\ \E c \in DOMAIN rows[k].d \ TargetFieldSet :
                rows[k].d[c] = NIL \/ SciLike(rows[k].d[c])
          /\ \E c \in DOMAIN rows[k].d \cap TargetFieldSet :
                rows[k].d[c] # DictReader(before[cur]).rows[k].d[c]
          /\ ~(TargetFieldSet \subseteq DOMAIN rows[k].d)

\* the values the case analysis counts as a change
Counts(v) ==
    v = NIL \/ (v # None /\ Contains(lower(v), EPLUS) /\ float(v).ok)

\* Claim C9: '<nil>' becomes '0' and counts; a parseable value containing
\* 'e+' becomes its two-decimal form and counts; every other value stays and
\* does not count as a change.
C9_Cases ==
    pc = "decide" =>
        LET orig == DictReader(before[cur]).rows
        IN  /\ \A k \in 1..Len(orig) : \A c \in TargetFieldSet \cap DOMAIN orig[k].d :
                  LET v == orig[k].d[c]
                      w == rows[k].d[c]
                  IN  IF v = NIL THEN w = ZERO
                      ELSE IF Counts(v) THEN w = format2f(float(v))
                      ELSE w = v
            /\ changes_made <=>
                  \E k \in 1..Len(orig) : \E c \in TargetFieldSet \cap DOMAIN orig[k].d :
                      Counts(orig[k].d[c])

\* Claim C10: files are processed one at a time in lexicographic order of
\* path, each discovered file once: the "Processing" lines are strictly
\* increasing, each is followed by that file's result before the next one,
\* only a file being processed is written, and a finished run has one
\* "Processing" line per discovered file.
C10_Sequential ==
    /\ \A k \in 1..(Len(Procs) - 1) : LexLess(Procs[k].file, Procs[k + 1].file)
    /\ \A k \in 1..Len(Procs) : Procs[k].file \in Range(csv_files)
    /\ \A k \in 1..Len(out) :
          out[k].ev = "processing" =>
             IF k = Len(out) THEN InFile /\ cur = out[k].file
             ELSE /\ out[k + 1].ev \in {"fixed", "nochange", "error"}
                  /\ out[k + 1].file = out[k].file
    /\ InFile => out[Len(out)] = Ev("processing", cur, 0, 0)
    /\ \A f \in DOMAIN disk :
          disk[f] # before[f] => \E k \in 1..Len(Procs) : Procs[k].file = f
    /\ pc = "done" => Len(Procs) = Len(csv_files)

C10_Witness ==
    /\ pc = "done"
    /\ Len(csv_files) >= 2
    /\ csv_files # order
    /\ Errors # {}
    /\ \E f \in DOMAIN disk : disk[f] # before[f]

====
